---------------------------- MODULE Spec2Model ----------------------------
(***************************************************************************)
(* Model of the GitHub content fetcher of github-rag-tool:                 *)
(*   - GitHubClient (src/github_rag/github_client.py): request             *)
(*     fingerprint, file cache, HTTP executor _make_request, tree walk     *)
(*     fetch_code_files;                                                   *)
(*   - GitHubDataLoader.load_data (src/github_rag/data_loader.py);         *)
(*   - the budgeted tree walk of src/main.py.                              *)
(*                                                                         *)
(* Time is counted in ticks, TicksPerSecond ticks to a second, so that     *)
(* the fractional part of time.time() (the jitter) is a state of the       *)
(* clock.  Python's None and JSON null are one value, None.                *)
(* Responses are those of a JSON API: header values are decimal integers   *)
(* and bodies are JSON documents.                                          *)
(***************************************************************************)
EXTENDS Integers, Sequences, FiniteSets, TLC

\* ------------------------------------------------------------- bounds
\* clock resolution
TicksPerSecond == 2
\* largest max_retries argument
MaxRetries == 2
\* executor calls in one run of Spec
MaxCalls == 1
\* executor calls in one run of CacheSpec
MaxCacheCalls == 2
\* self.cache_ttl
CacheTtlSeconds == 1

Max(a, b) == IF a >= b THEN a ELSE b
Min(a, b) == IF a <= b THEN a ELSE b

RECURSIVE Pow2(_)
Pow2(n) == IF n = 0 THEN 1 ELSE 2 * Pow2(n - 1)

\* ------------------------------------------------------ JSON payloads
\* A payload is a JSON value as json.load / response.json() returns it:
\* null (None), a list of strings, or an object whose i-th member has the
\* key DictKeys[i].  A string is one character: an encodable
\* character, or a lone surrogate (which "\ud800" in a JSON text decodes to).
Chars == {"a", "b", "lone-surrogate"}
ResponseChars == {"a", "lone-surrogate"}
DictKeys == <<"content", "sha">>

None == [kind |-> "null", items |-> <<>>]

SeqsUpTo(S, n) == UNION {[1..k -> S] : k \in 0..n}

EmptyList == [kind |-> "list", items |-> <<>>]
EmptyDict == [kind |-> "dict", items |-> <<>>]
Payloads ==
    {None, EmptyList, EmptyDict}
    \cup {[kind |-> "list", items |-> <<c>>] : c \in ResponseChars}
    \cup {[kind |-> "dict", items |-> <<"a">>]}

\* Python truth value of a payload: None, [] and {} are falsy.
Truthy(p) == p.kind # "null" /\ p.items # <<>>

\* The chunks json.dump(data, f, ensure_ascii=False) hands to f.write, in
\* order (json.encoder._make_iterencode): a chunk is a sequence of symbols.
Quoted(c) == <<"\"", c, "\"">>

ListChunks(items) ==
    IF items = <<>> THEN << <<"[]">> >>
    ELSE [i \in 1..Len(items) |->
             (IF i = 1 THEN <<"[">> ELSE <<", ">>) \o Quoted(items[i])]
         \o << <<"]">> >>

RECURSIVE DictChunks(_, _)
DictChunks(items, i) ==
    IF i > Len(items) THEN << <<"}">> >>
    ELSE (IF i = 1 THEN <<>> ELSE << <<", ">> >>)
         \o << <<"\"", DictKeys[i], "\"">>, <<": ">>, Quoted(items[i]) >>
         \o DictChunks(items, i + 1)

json_dump_chunks(p) ==
    CASE p.kind = "null" -> << <<"null">> >>
      [] p.kind = "list" -> ListChunks(p.items)
      [] p.kind = "dict" ->
            IF p.items = <<>> THEN << <<"{}">> >>
            ELSE << <<"{">> >> \o DictChunks(p.items, 1)

\* The utf-8 codec of the file refuses a lone surrogate: f.write raises
\* UnicodeEncodeError and writes nothing of that chunk.
Encodable(chunk) == \A i \in 1..Len(chunk) : chunk[i] # "lone-surrogate"

RECURSIVE Flatten(_)
Flatten(chunks) ==
    IF chunks = <<>> THEN <<>> ELSE Head(chunks) \o Flatten(Tail(chunks))

RECURSIVE WrittenPrefix(_)
WrittenPrefix(chunks) ==
    IF chunks = <<>> \/ ~Encodable(Head(chunks)) THEN <<>>
    ELSE <<Head(chunks)>> \o WrittenPrefix(Tail(chunks))

\* The text left in the file by `with open(..., "w") as f: json.dump(...)`:
\* every chunk before the first one the codec refuses.
json_dump(p) == Flatten(WrittenPrefix(json_dump_chunks(p)))

DumpRaises(p) == \E i \in 1..Len(json_dump_chunks(p)) :
                     ~Encodable(json_dump_chunks(p)[i])

\* json.load: the parser of the texts above.  ParseFail stands for the
\* JSONDecodeError raised on any other text.
ParseFail == [ok |-> FALSE, v |-> None]
ParseOk(v) == [ok |-> TRUE, v |-> v]

RECURSIVE ParseElems(_)
ParseElems(t) ==
    IF Len(t) >= 3 /\ t[1] = "\"" /\ t[2] \in Chars /\ t[3] = "\""
    THEN IF Len(t) = 3 THEN ParseOk(<<t[2]>>)
         ELSE IF t[4] = ", "
              THEN LET r == ParseElems(SubSeq(t, 5, Len(t)))
                   IN  IF r.ok THEN ParseOk(<<t[2]>> \o r.v) ELSE ParseFail
              ELSE ParseFail
    ELSE ParseFail

RECURSIVE ParseMembers(_, _)
ParseMembers(t, i) ==
    IF i <= Len(DictKeys) /\ Len(t) >= 7
       /\ SubSeq(t, 1, 4) = <<"\"", DictKeys[i], "\"", ": ">>
       /\ t[5] = "\"" /\ t[6] \in Chars /\ t[7] = "\""
    THEN IF Len(t) = 7 THEN ParseOk(<<t[6]>>)
         ELSE IF t[8] = ", "
              THEN LET r == ParseMembers(SubSeq(t, 9, Len(t)), i + 1)
                   IN  IF r.ok THEN ParseOk(<<t[6]>> \o r.v) ELSE ParseFail
              ELSE ParseFail
    ELSE ParseFail

json_load(t) ==
    IF t = <<"null">> THEN ParseOk(None)
    ELSE IF t = <<"[]">> THEN ParseOk([kind |-> "list", items |-> <<>>])
    ELSE IF t = <<"{}">> THEN ParseOk([kind |-> "dict", items |-> <<>>])
    ELSE IF Len(t) >= 2 /\ t[1] = "[" /\ t[Len(t)] = "]"
    THEN LET r == ParseElems(SubSeq(t, 2, Len(t) - 1))
         IN  IF r.ok THEN ParseOk([kind |-> "list", items |-> r.v]) ELSE ParseFail
    ELSE IF Len(t) >= 2 /\ t[1] = "{" /\ t[Len(t)] = "}"
    THEN LET r == ParseMembers(SubSeq(t, 2, Len(t) - 1), 1)
         IN  IF r.ok THEN ParseOk([kind |-> "dict", items |-> r.v]) ELSE ParseFail
    ELSE ParseFail

\* ------------------------------------------------- request fingerprint
\* A params argument is Python's None or a dict; a dict is the sequence of
\* its (key, value) pairs in insertion order, keys distinct.  A value is
\* <<"int", digits>> or <<"str", text>>.
ParamKeys == <<"page", "per_page", "state">>   \* in ascending string order
ParamKeySet == {ParamKeys[i] : i \in 1..Len(ParamKeys)}
ParamValues == {<<"int", "1">>, <<"int", "2">>, <<"str", "1">>}

NoParams == [isNone |-> TRUE, items |-> <<>>]
Dict(items) == [isNone |-> FALSE, items |-> items]

KeysOf(items) == {items[i][1] : i \in 1..Len(items)}
Lookup(items, k) == (CHOOSE i \in 1..Len(items) : items[i][1] = k)

\* sorted(dct.items()) of json.dumps(..., sort_keys=True)
RECURSIVE SortedFrom(_, _)
SortedFrom(items, r) ==
    IF r > Len(ParamKeys) THEN <<>>
    ELSE (IF ParamKeys[r] \in KeysOf(items)
          THEN <<items[Lookup(items, ParamKeys[r])]>> ELSE <<>>)
         \o SortedFrom(items, r + 1)

ItemsInDumpOrderUnsorted(items) == items
ItemsInDumpOrder(items) == SortedFrom(items, 1)

ValueText(v) == IF v[1] = "str" THEN <<"\"", v[2], "\"">> ELSE <<v[2]>>

RECURSIVE MembersText(_, _)
MembersText(items, i) ==
    IF i > Len(items) THEN <<>>
    ELSE (IF i = 1 THEN <<>> ELSE <<", ">>)
         \o <<"\"", items[i][1], "\"", ": ">> \o ValueText(items[i][2])
         \o MembersText(items, i + 1)

\* json.dumps(params or {}, sort_keys=True)
params_str(params) ==
    LET d == IF params.isNone \/ params.items = <<>> THEN <<>> ELSE params.items
    IN  <<"{">> \o MembersText(ItemsInDumpOrder(d), 1) \o <<"}">>

\* hashlib.md5(key.encode()).hexdigest(): the digest of a text is modelled
\* as a value that determines the text (no two texts of the model collide).
md5_hexdigest(text) == <<"md5">> \o text

get_cache_key(url, params) == md5_hexdigest(<<url, "_">> \o params_str(params))

\* -------------------------------------------------------- cache store
\* One file per fingerprint in cache_dir: its modification time and text.
NoFile == [exists |-> FALSE, mtime |-> 0, text |-> <<>>]

cache_ttl == CacheTtlSeconds * TicksPerSecond

Urls == {"issues", "contents"}
ExecParams == {NoParams, Dict(<< <<"page", <<"int", "1">> >> >>)}
Fingerprints == {get_cache_key(u, p) : u \in {"issues"}, p \in ExecParams}

VARIABLES
    now,            \* time.time(), in ticks
    use_cache,      \* self.use_cache
    cache,          \* the files of cache_dir, by fingerprint
    requests_made, cache_hits,
    pc,             \* "idle", "loop" (in the retry loop), "done", "raised"
    call,           \* the arguments of the running _make_request
    retries,        \* the local `retries`
    result,         \* the value returned
    from_cache,     \* the value returned was read from the cache
    http_calls,     \* HTTP calls issued by this call
    last_status,    \* status of the last response (-1: none yet, 0: exception)
    sleep_count,    \* time.sleep calls of this call
    quota_waits,    \* those of them that waited for the quota reset
    last_sleep,     \* the last time.sleep of this call
    calls,          \* executor calls started so far
    stored,         \* the payload last handed to _save_to_cache, by fingerprint
    puts            \* the writes _save_to_cache made, in order, by fingerprint

exec_vars == <<now, use_cache, cache, requests_made, cache_hits,
               pc, call, retries, result, from_cache, http_calls, last_status,
               sleep_count, quota_waits, last_sleep, calls, stored, puts>>

VARIABLES
    walk_op,        \* the walk that ran: "none", "main", "client", "load_data"
    walk_tree,      \* the repository tree it ran on
    walk_bad,       \* the entries whose request failed
    walk_args,      \* its arguments
    walk_out        \* what it returned

walk_vars == <<walk_op, walk_tree, walk_bad, walk_args, walk_out>>

VARIABLES
    fp_a, fp_b      \* two requests and the fingerprint computed for each

fp_vars == <<fp_a, fp_b>>

VARIABLES
    page_op,        \* the paginated fetch that ran: "none", "issues", "pulls", "commits"
    page_server,    \* what the executor returns for page 1, 2, ... of the listing
    page_args,      \* the per_page argument
    page_out        \* the list returned and the requests made for it

page_vars == <<page_op, page_server, page_args, page_out>>

VARIABLES
    ctor_pc,        \* "none", "constructed", "raised": how GitHubClient(...) ended
    ctor_url,       \* its repo_url argument
    ctor_use_cache, \* its use_cache argument
    cache_dir,      \* [before, after]: cache_dir exists before / after the call
    ctor_requests   \* the executor calls it made: the (owner, repo) asked about

ctor_vars == <<ctor_pc, ctor_url, ctor_use_cache, cache_dir, ctor_requests>>

VARIABLES
    is_data_loaded, is_vectordb_ready, is_conversation_ready,
    conversation_manager,   \* "None" or "ConversationManager"
    vector_db,              \* vector_store.vector_db: "None" or "Chroma"
    queries_count,          \* stats["queries_count"]
    built,          \* build_knowledge_base returned True since the last reset
    tool_out        \* the last call: its name, how it ended, what it met

tool_vars == <<is_data_loaded, is_vectordb_ready, is_conversation_ready,
               conversation_manager, vector_db, queries_count, built, tool_out>>

VARIABLES
    conc_file,      \* the cache file of the fingerprint the threads share
    conc_pc,        \* per thread: "idle", or "writing" inside _save_to_cache
    conc_data,      \* per thread: the payload its _save_to_cache was given
    conc_pos,       \* per thread: chunks of it handed to the file so far
    conc_off,       \* per thread: position of its file object
    conc_got,       \* what the last _get_from_cache returned
    conc_gets,      \* 1 once a _get_from_cache has returned
    conc_handed     \* the payloads given to _save_to_cache so far

conc_vars == <<conc_file, conc_pc, conc_data, conc_pos, conc_off, conc_got,
               conc_gets, conc_handed>>

non_exec_vars == <<walk_vars, fp_vars, page_vars, ctor_vars, tool_vars, conc_vars>>
non_walk_vars == <<exec_vars, fp_vars, page_vars, ctor_vars, tool_vars, conc_vars>>
non_fp_vars == <<exec_vars, walk_vars, page_vars, ctor_vars, tool_vars, conc_vars>>
non_page_vars == <<exec_vars, walk_vars, fp_vars, ctor_vars, tool_vars, conc_vars>>
non_ctor_vars == <<exec_vars, walk_vars, fp_vars, page_vars, tool_vars, conc_vars>>
non_tool_vars == <<exec_vars, walk_vars, fp_vars, page_vars, ctor_vars, conc_vars>>
non_conc_vars == <<exec_vars, walk_vars, fp_vars, page_vars, ctor_vars, tool_vars>>

\* `if cache_age < self.cache_ttl` (line 98)
FreshEnoughInclusive(cache_age, ttl) == cache_age <= ttl
FreshEnough(cache_age, ttl) == cache_age < ttl

\* What _get_from_cache returns when open or json.load raises: the
\* exception is logged and the function falls through to `return None`
\* (lines 104-111).
OnReadErrorEmptyDict == EmptyDict
OnReadError == None

\* _get_from_cache: the value returned and the increment of cache_hits
get_from_cache_any_client(key) ==
    IF cache[key].exists
    THEN IF FreshEnough(now - cache[key].mtime, cache_ttl)
         THEN LET r == json_load(cache[key].text)
              IN  [v |-> IF r.ok THEN r.v ELSE OnReadError, hit |-> 1]
         ELSE [v |-> None, hit |-> 0]
    ELSE [v |-> None, hit |-> 0]
get_from_cache(key) ==
    IF ~use_cache THEN [v |-> None, hit |-> 0]
    ELSE IF cache[key].exists
    THEN IF FreshEnough(now - cache[key].mtime, cache_ttl)
         THEN LET r == json_load(cache[key].text)
              IN  [v |-> IF r.ok THEN r.v ELSE OnReadError, hit |-> 1]
         ELSE [v |-> None, hit |-> 0]
    ELSE [v |-> None, hit |-> 0]

\* _get_from_cache: the files after the call.  The function opens the file
\* for reading only and removes nothing, whatever it finds (lines 88-111).
cache_after_get_evicting(key) ==
    IF use_cache /\ cache[key].exists
       /\ (~FreshEnough(now - cache[key].mtime, cache_ttl)
           \/ ~json_load(cache[key].text).ok)
    THEN [cache EXCEPT ![key] = NoFile]
    ELSE cache
cache_after_get(key) == cache

\* _save_to_cache: the files after the call
save_to_cache(key, data) ==
    IF ~use_cache THEN cache
    ELSE [cache EXCEPT ![key] =
             [exists |-> TRUE, mtime |-> now, text |-> json_dump(data)]]

\* ------------------------------------------------------ HTTP executor
Methods == {"GET", "POST", "PUT", "DELETE", "PATCH"}
SupportedMethods == {"GET", "POST", "PUT", "DELETE"}
CacheArgs == {"None", "True", "False"}      \* the use_cache argument

\* What one HTTP call can come back with.  status 0 stands for a
\* requests.exceptions.RequestException (no response).  remaining is the
\* X-RateLimit-Remaining header (-1: header absent), reset the
\* X-RateLimit-Reset header in seconds (0: header absent), retry_after the
\* Retry-After header in seconds (-1: header absent).
Response(st, rem, rst, ra, body) ==
    [status |-> st, remaining |-> rem, reset |-> rst, retry_after |-> ra,
     body |-> body]

NowSeconds == now \div TicksPerSecond

Responses ==
    {Response(200, 7, 0, -1, b) : b \in Payloads}
    \cup {Response(201, 7, 0, -1, [kind |-> "dict", items |-> <<"a">>])}
    \cup {Response(st, 7, 0, -1, None) : st \in {0, 401, 404, 422, 500}}
    \cup {Response(st, 0, rst, -1, None) :
            st \in {403, 429}, rst \in {0, NowSeconds + 1}}
    \cup {Response(st, 7, 0, ra, None) : st \in {403, 429}, ra \in {-1, 1}}
    \cup {Response(st, -1, 0, -1, None) : st \in {403, 429}}

NoCall == [url |-> "", params |-> NoParams, method |-> "", max_retries |-> 0,
           use_cache |-> FALSE, cache_key |-> <<>>]

\* sleep_time of a confirmed quota exhaustion (lines 280-284), in ticks
QuotaSleepNoMargin(reset_time, current_time) ==
    Max(reset_time * TicksPerSecond - current_time, 0)
QuotaSleepTime(reset_time, current_time) ==
    Max(reset_time * TicksPerSecond - current_time, 0) + 2 * TicksPerSecond

\* wait_time = (2**retries) + (time.time() % 1), in ticks
BackoffTimeFixed(n) == TicksPerSecond + (now % TicksPerSecond)
BackoffTime(n) == Pow2(n) * TicksPerSecond + (now % TicksPerSecond)

NoSleep == [kind |-> "none", dur |-> 0, reset |-> 0, at |-> 0]
Sleep(kind, dur, reset) == [kind |-> kind, dur |-> dur, reset |-> reset, at |-> now]

\* `retries` after a quota wait (line 290)
RetriesAfterQuotaWaitUncounted(n) == n
RetriesAfterQuotaWait(n) == n + 1

\* `retries` after an ordinary failed attempt (lines 314, 334, 343)
RetriesAfterFailureUncounted(n) == n
RetriesAfterFailure(n) == n + 1

\* `while retries < max_retries` (line 223)
LoopContinuesInclusive(n, max_retries) == n <= max_retries
LoopContinues(n, max_retries) == n < max_retries

\* `if response.status_code == 429 and "Retry-After" in response.headers`
\* (lines 294-297)
HonoursRetryAfterAnyStatus(r) == r.retry_after # -1
HonoursRetryAfter(r) == r.status = 429 /\ r.retry_after # -1

\* the statuses that are not retried (line 325)
NonRetryableWithout404 == {401, 422}
NonRetryable == {401, 404, 422}

ExecInit ==
    /\ now = 0
    /\ use_cache \in BOOLEAN
    /\ cache = [f \in Fingerprints |-> NoFile]
    /\ requests_made = 0
    /\ cache_hits = 0
    /\ pc = "idle"
    /\ call = NoCall
    /\ retries = 0
    /\ result = None
    /\ from_cache = FALSE
    /\ http_calls = 0
    /\ last_status = -1
    /\ sleep_count = 0
    /\ quota_waits = 0
    /\ last_sleep = NoSleep
    /\ calls = 0
    /\ stored = [f \in Fingerprints |-> None]
    /\ puts = [f \in Fingerprints |-> <<>>]

\* `if cached_data:` (line 215)
CachedDataUsable(cached_data) == Truthy(cached_data)

\* _make_request, from its entry to the retry loop (lines 208-221)
MakeRequest(url, params, method, max_retries, cache_arg) ==
    /\ pc = "idle"
    /\ calls' = calls + 1
    /\ LET uc  == IF cache_arg = "None" THEN use_cache ELSE cache_arg = "True"
           key == get_cache_key(url, params)
           got == get_from_cache(key)
           c   == [url |-> url, params |-> params, method |-> method,
                   max_retries |-> max_retries, use_cache |-> uc,
                   cache_key |-> key]
       IN  /\ call' = c
           /\ IF method = "GET" /\ uc
              THEN /\ cache_hits' = cache_hits + got.hit
                   /\ IF CachedDataUsable(got.v)
                      THEN /\ pc' = "done"
                           /\ result' = got.v
                           /\ from_cache' = TRUE
                           /\ UNCHANGED requests_made
                      ELSE /\ pc' = "loop"
                           /\ result' = None
                           /\ from_cache' = FALSE
                           /\ requests_made' = requests_made + 1
              ELSE /\ pc' = "loop"
                   /\ result' = None
                   /\ from_cache' = FALSE
                   /\ requests_made' = requests_made + 1
                   /\ UNCHANGED cache_hits
    /\ cache' = IF method = "GET"
                    /\ (IF cache_arg = "None" THEN use_cache ELSE cache_arg = "True")
                 THEN cache_after_get(get_cache_key(url, params))
                 ELSE cache
    /\ UNCHANGED <<now, use_cache, retries, http_calls, last_status,
                   sleep_count, quota_waits, last_sleep, stored, puts>>
    /\ UNCHANGED non_exec_vars

\* One pass of `while retries < max_retries` with a method requests has no
\* function for: ValueError leaves _make_request (line 242).
RaiseUnsupported ==
    /\ pc = "loop"
    /\ LoopContinues(retries, call.max_retries)
    /\ call.method \notin SupportedMethods
    /\ pc' = "raised"
    /\ UNCHANGED <<now, use_cache, cache, requests_made, cache_hits, call,
                   retries, result, from_cache, http_calls, last_status,
                   sleep_count, quota_waits, last_sleep, calls, stored, puts>>
    /\ UNCHANGED non_exec_vars

\* The rest of a pass that sleeps `s` and goes round again with retries = n
Retry(s, n) ==
    /\ last_sleep' = s
    /\ sleep_count' = sleep_count + 1
    /\ quota_waits' = IF s.kind = "quota" THEN quota_waits + 1 ELSE quota_waits
    /\ now' = now + s.dur
    /\ retries' = n
    /\ UNCHANGED <<pc, result, cache, stored, puts>>

\* One pass of `while retries < max_retries` (lines 223-343): the HTTP call,
\* its response r, and what the code does with it.
Attempt(r) ==
    /\ pc = "loop"
    /\ LoopContinues(retries, call.max_retries)
    /\ call.method \in SupportedMethods
    /\ http_calls' = http_calls + 1
    /\ last_status' = r.status
    /\ IF r.status = 0
       THEN Retry(Sleep("backoff", BackoffTime(retries), 0),
                  RetriesAfterFailure(retries))
       ELSE IF r.status \in {200, 201}
       THEN /\ result' = r.body
            /\ pc' = "done"
            /\ IF call.method = "GET" /\ call.use_cache
               THEN /\ cache' = save_to_cache(call.cache_key, r.body)
                    /\ stored' = IF use_cache
                                 THEN [stored EXCEPT ![call.cache_key] = r.body]
                                 ELSE stored
                    /\ puts' = IF use_cache
                               THEN [puts EXCEPT ![call.cache_key] =
                                        Append(@, [data |-> r.body, at |-> now])]
                               ELSE puts
               ELSE UNCHANGED <<cache, stored, puts>>
            /\ UNCHANGED <<now, retries, sleep_count, quota_waits, last_sleep>>
       ELSE IF r.status \in {403, 429}
       THEN IF r.remaining = 0
            THEN Retry(Sleep("quota", QuotaSleepTime(r.reset, now), r.reset),
                       RetriesAfterQuotaWait(retries))
            ELSE IF HonoursRetryAfter(r)
            THEN Retry(Sleep("retry_after", r.retry_after * TicksPerSecond, 0),
                       RetriesAfterFailure(retries))
            ELSE Retry(Sleep("backoff", BackoffTime(retries), 0),
                       RetriesAfterFailure(retries))
       ELSE IF r.status \in NonRetryable
       THEN /\ result' = None
            /\ pc' = "done"
            /\ UNCHANGED <<now, retries, sleep_count, quota_waits, last_sleep,
                           cache, stored, puts>>
       ELSE Retry(Sleep("backoff", BackoffTime(retries), 0),
                  RetriesAfterFailure(retries))
    /\ UNCHANGED <<use_cache, requests_made, cache_hits, call, from_cache, calls>>
    /\ UNCHANGED non_exec_vars

\* The loop ends with every attempt used up (lines 345-347)
Exhausted ==
    /\ pc = "loop"
    /\ ~LoopContinues(retries, call.max_retries)
    /\ pc' = "done"
    /\ result' = None
    /\ UNCHANGED <<now, use_cache, cache, requests_made, cache_hits, call,
                   retries, from_cache, http_calls, last_status, sleep_count,
                   quota_waits, last_sleep, calls, stored, puts>>
    /\ UNCHANGED non_exec_vars

\* The caller takes the result (or the exception); the client is idle again.
Return ==
    /\ pc \in {"done", "raised"}
    /\ pc' = "idle"
    /\ call' = NoCall
    /\ retries' = 0
    /\ result' = None
    /\ from_cache' = FALSE
    /\ http_calls' = 0
    /\ last_status' = -1
    /\ sleep_count' = 0
    /\ quota_waits' = 0
    /\ last_sleep' = NoSleep
    /\ UNCHANGED <<now, use_cache, cache, requests_made, cache_hits, calls, stored, puts>>
    /\ UNCHANGED non_exec_vars

\* Time passes between calls.
MaxTime == cache_ttl + 1
Tick ==
    /\ pc = "idle"
    /\ now < MaxTime
    /\ now' = now + 1
    /\ UNCHANGED <<use_cache, cache, requests_made, cache_hits, pc, call,
                   retries, result, from_cache, http_calls, last_status,
                   sleep_count, quota_waits, last_sleep, calls, stored, puts>>
    /\ UNCHANGED non_exec_vars

\* ---------------------------------------------------------- tree walks
\* A repository tree: entries 1..n, entry i in the directory parent[i]
\* (0 is the directory the walk starts in), listed in increasing order.
\* The kind of an entry stands for what the walks read of it:
\*   "py"           a file a.py of admissible size
\*   "png"          a file a.png of admissible size
\*   "big"          a file b.py larger than max_file_size
\*   "dir"          a directory src
\*   "node_modules" a directory node_modules
MaxNodes == 3
MaxBudget == 2
Kinds == {"py", "png", "big", "dir", "node_modules"}

item_type(k) == IF k \in {"dir", "node_modules"} THEN "dir" ELSE "file"
Extension(k) == IF k = "png" THEN ".png" ELSE ".py"
TooBig(k) == k = "big"                      \* item["size"] > max_file_size
exclude_dirs == {"node_modules"}            \* of the default list (712-719)
ExcludedName(k) == k \in exclude_dirs       \* item_name in exclude_dirs

TreesOfSize(n) ==
    {t \in [n : {n}, parent : [1..n -> 0..(n - 1)], kind : [1..n -> Kinds]] :
        \A i \in 1..n :
            /\ t.parent[i] < i
            /\ t.parent[i] # 0 => item_type(t.kind[t.parent[i]]) = "dir"}
Trees == UNION {TreesOfSize(n) : n \in 0..MaxNodes}

\* The listing of directory d, in the order the API returns it
RECURSIVE ListingFrom(_, _, _)
ListingFrom(t, d, i) ==
    IF i > t.n THEN <<>>
    ELSE (IF t.parent[i] = d THEN <<i>> ELSE <<>>) \o ListingFrom(t, d, i + 1)
Listing(t, d) == ListingFrom(t, d, 1)

\* What a walk does, in order: it asks for the listing of a directory, it
\* adds a file to its list.
Listed(path) == [ev |-> "list", id |-> path]
Collected(files) == [i \in 1..Len(files) |-> [ev |-> "file", id |-> files[i]]]

\* A walk's answer: the files returned, the directories whose listing was
\* requested and the files whose content was requested, each in order, and
\* the order in which listings were requested and files added.
WalkResult(files, reqs, downloads, trace) ==
    [files |-> files, reqs |-> reqs, downloads |-> downloads, trace |-> trace]

Take(s, k) == SubSeq(s, 1, Min(Len(s), k))
SelectType(t, items, ty) == SelectSeq(items, LAMBDA i : item_type(t.kind[i]) = ty)

\* GitHubRagTool.fetch_code_files of main.py (lines 338-381).  `bad` are the
\* entries whose request fails (status other than 200).
RECURSIVE main_fetch_code_files(_, _, _, _), MainSubdirs(_, _, _, _, _, _)
MainSubdirs(t, bad, ds, i, max_files, acc) ==
    IF i > Len(ds) THEN acc
    ELSE LET sub == main_fetch_code_files(t, bad, ds[i], max_files - Len(acc.files))
             nxt == WalkResult(acc.files \o sub.files, acc.reqs \o sub.reqs, <<>>,
                               acc.trace \o sub.trace)
         IN  IF Len(nxt.files) >= max_files THEN nxt
             ELSE MainSubdirs(t, bad, ds, i + 1, max_files, nxt)

main_fetch_code_files(t, bad, path, max_files) ==
    IF path \in bad THEN WalkResult(<<>>, <<path>>, <<>>, <<Listed(path)>>)
    ELSE LET contents == Listing(t, path)
             files == SelectType(t, contents, "file")
             dirs  == SelectType(t, contents, "dir")
             first == WalkResult(files, <<path>>, <<>>,
                                 <<Listed(path)>> \o Collected(files))
             all ==
                IF Len(files) < max_files /\ dirs # <<>>
                THEN MainSubdirs(t, bad,
                         Take(dirs, Min(Len(dirs), max_files - Len(files))),
                         1, max_files, first)
                ELSE first
         IN  WalkResult(Take(all.files, max_files), all.reqs, <<>>, all.trace)

\* The file_extensions argument of GitHubClient.fetch_code_files: None is
\* replaced by the default list (lines 721-732), which holds ".py".
ExtArgs == {"None", "[]", "[.py]", "[.png]"}
file_extensions(arg) ==
    CASE arg = "None" -> {".py"}
      [] arg = "[]" -> {}
      [] arg = "[.py]" -> {".py"}
      [] arg = "[.png]" -> {".png"}

\* all_files after the download of a file: the record is appended when the
\* request gave a payload with a "content" member (lines 805-823)
FilesAfterDownloadAlways(all_files, item, downloaded) == Append(all_files, item)
FilesAfterDownload(all_files, item, downloaded) ==
    IF downloaded THEN Append(all_files, item) ELSE all_files

\* GitHubClient.fetch_code_files (lines 688-833).  A request for an entry
\* in `bad` fails: _make_request returns None.
RECURSIVE fetch_code_files(_, _, _, _, _), ClientItems(_, _, _, _, _, _, _)
ClientItems(t, bad, items, i, recursive, ext_arg, acc) ==
    IF i > Len(items) THEN acc
    ELSE LET item == items[i]
             k == t.kind[item]
             exts == file_extensions(ext_arg)
             nxt ==
                IF item_type(k) = "dir" /\ ExcludedName(k) THEN acc
                ELSE IF item_type(k) = "dir" /\ recursive
                THEN LET sub == fetch_code_files(t, bad, item, recursive, ext_arg)
                     IN  WalkResult(acc.files \o sub.files, acc.reqs \o sub.reqs,
                                    acc.downloads \o sub.downloads,
                                    acc.trace \o sub.trace)
                ELSE IF item_type(k) = "file"
                THEN IF exts # {} /\ Extension(k) \notin exts THEN acc
                     ELSE IF TooBig(k) THEN acc
                     ELSE WalkResult(
                              FilesAfterDownload(acc.files, item, item \notin bad),
                              acc.reqs, Append(acc.downloads, item),
                              IF item \in bad THEN acc.trace
                              ELSE acc.trace \o Collected(<<item>>))
                ELSE acc
         IN  ClientItems(t, bad, items, i + 1, recursive, ext_arg, nxt)

fetch_code_files(t, bad, path, recursive, ext_arg) ==
    LET contents == IF path \in bad THEN <<>> ELSE Listing(t, path)
    IN  IF contents = <<>> THEN WalkResult(<<>>, <<path>>, <<>>, <<Listed(path)>>)
        ELSE ClientItems(t, bad, contents, 1, recursive, ext_arg,
                         WalkResult(<<>>, <<path>>, <<>>, <<Listed(path)>>))

\* GitHubDataLoader._load_content_type("code", limit_issues, max_files)
\* (lines 60-65): self.code_files after the call.
load_code_files_flat(t, bad, max_files) == fetch_code_files(t, bad, 0, FALSE, "None")
load_code_files(t, bad, max_files) == fetch_code_files(t, bad, 0, TRUE, "None")

\* max_files = None
NoBudget == -1
NoTree == [n |-> 0, parent |-> <<>>, kind |-> <<>>]
WalkArgs(max_files, recursive, ext_arg) ==
    [max_files |-> max_files, recursive |-> recursive, file_extensions |-> ext_arg]
NoArgs == WalkArgs(NoBudget, TRUE, "None")

WalkInit ==
    /\ walk_op = "none"
    /\ walk_tree = NoTree
    /\ walk_bad = {}
    /\ walk_args = NoArgs
    /\ walk_out = WalkResult(<<>>, <<>>, <<>>, <<>>)

BadSets(t) == {{}} \cup {{i} : i \in 0..t.n}

\* main.py: self.fetch_code_files(path="", max_files=B)
MainFetchCodeFiles(t, bad, max_files) ==
    /\ walk_op = "none"
    /\ walk_op' = "main"
    /\ walk_tree' = t
    /\ walk_bad' = bad
    /\ walk_args' = WalkArgs(max_files, TRUE, "None")
    /\ walk_out' = main_fetch_code_files(t, bad, 0, max_files)
    /\ UNCHANGED non_walk_vars

\* github_client.fetch_code_files(recursive=..., file_extensions=...)
ClientFetchCodeFiles(t, bad, recursive, ext_arg) ==
    /\ walk_op = "none"
    /\ walk_op' = "client"
    /\ walk_tree' = t
    /\ walk_bad' = bad
    /\ walk_args' = WalkArgs(NoBudget, recursive, ext_arg)
    /\ walk_out' = fetch_code_files(t, bad, 0, recursive, ext_arg)
    /\ UNCHANGED non_walk_vars

\* data_loader.load_data(["code"], max_files=B), as build_knowledge_base and
\* add_more_content call it (rag_tool.py lines 163-167)
LoadData(t, bad, max_files) ==
    /\ walk_op = "none"
    /\ walk_op' = "load_data"
    /\ walk_tree' = t
    /\ walk_bad' = bad
    /\ walk_args' = WalkArgs(max_files, TRUE, "None")
    /\ walk_out' = load_code_files(t, bad, max_files)
    /\ UNCHANGED non_walk_vars

\* The caller is done with the result.
WalkReturn ==
    /\ walk_op # "none"
    /\ walk_op' = "none"
    /\ walk_tree' = NoTree
    /\ walk_bad' = {}
    /\ walk_args' = NoArgs
    /\ walk_out' = WalkResult(<<>>, <<>>, <<>>, <<>>)
    /\ UNCHANGED non_walk_vars

RunMain ==
    /\ walk_op = "none"
    /\ \E t \in Trees, max_files \in 0..MaxBudget :
          \E bad \in BadSets(t) : MainFetchCodeFiles(t, bad, max_files)

RunClient ==
    /\ walk_op = "none"
    /\ \E t \in Trees, recursive \in BOOLEAN, ext_arg \in ExtArgs :
          \E bad \in BadSets(t) : ClientFetchCodeFiles(t, bad, recursive, ext_arg)

RunLoadData ==
    /\ walk_op = "none"
    /\ \E t \in Trees, max_files \in {NoBudget} \cup (0..MaxBudget) :
          \E bad \in BadSets(t) : LoadData(t, bad, max_files)

WalkNext ==
    \/ RunMain
    \/ RunClient
    \/ RunLoadData
    \/ WalkReturn

\* ------------------------------------------------- paginated fetches
\* largest per_page argument
MaxPerPage == 2
\* pages the server holds; every later page comes back empty
MaxPages == 3

\* An item of a listing page.  pull_request: the item carries the key
\* "pull_request", as the issues the API returns for pull requests do.
Item(page, i, marked) == [number |-> <<page, i>>, pull_request |-> marked]
ListOf(items) == [kind |-> "list", items |-> items]

\* What _make_request can return for page k when asked for per_page items:
\* None (the request failed) or a list of at most per_page items.
PageChoices(k, per_page) ==
    {None} \cup
    UNION {{ListOf([i \in 1..n |-> Item(k, i, marks[i])]) :
               marks \in [1..n -> BOOLEAN]} : n \in 0..per_page}

RECURSIVE ServersOfLen(_, _)
ServersOfLen(n, per_page) ==
    IF n = 0 THEN {<<>>}
    ELSE {Append(s, p) : s \in ServersOfLen(n - 1, per_page),
                         p \in PageChoices(n, per_page)}
Servers(per_page) == ServersOfLen(MaxPages, per_page)

\* self._make_request(url, params=params) with params["page"] = page
PageOf(server, page) ==
    IF page \in 1..Len(server) THEN server[page] ELSE ListOf(<<>>)

\* The request made for a page: params["page"] and params["per_page"]
PageRequest(page, per_page) == [page |-> page, per_page |-> per_page]

\* A fetch's answer: the list returned and the requests made, in order
FetchResult(out, reqs) == [out |-> out, reqs |-> reqs]

\* `if not issues or len(issues) == 0: break`
PageStops(issues) == ~Truthy(issues) \/ Len(issues.items) = 0

\* what the fetch returns after that break: the list accumulated so far
NothingAfterBreak(all_items) == <<>>
ReturnedAfterBreak(all_items) == all_items

\* `if "pull_request" not in issue`
KeepsEveryItem(issue) == TRUE
NotPullRequest(issue) == ~issue.pull_request

\* the length compared with per_page: len(issues), the page as received
FilteredSize(issues, filtered_issues) == Len(filtered_issues)
RawSize(issues, filtered_issues) == Len(issues)

\* `if len(issues) < per_page: break`
IsLastPageInclusive(n, per_page) == n <= per_page
IsLastPage(n, per_page) == n < per_page

\* params["page"] += 1
NextPageSkipping(page) == page + 2
NextPage(page) == page + 1

RECURSIVE IssuesLoop(_, _, _, _, _)
IssuesLoop(server, per_page, page, all_issues, reqs) ==
    LET issues == PageOf(server, page)
        asked  == Append(reqs, PageRequest(page, per_page))
    IN  IF PageStops(issues) THEN FetchResult(ReturnedAfterBreak(all_issues), asked)
        ELSE LET filtered_issues == SelectSeq(issues.items, NotPullRequest)
                 all == all_issues \o filtered_issues
             IN  IF IsLastPage(RawSize(issues.items, filtered_issues), per_page)
                 THEN FetchResult(all, asked)
                 ELSE IssuesLoop(server, per_page, NextPage(page), all, asked)

\* GitHubClient.fetch_issues (lines 361-438)
fetch_issues(server, per_page) == IssuesLoop(server, per_page, 1, <<>>, <<>>)

RECURSIVE PullsLoop(_, _, _, _, _)
PullsLoop(server, per_page, page, all_prs, reqs) ==
    LET prs   == PageOf(server, page)
        asked == Append(reqs, PageRequest(page, per_page))
    IN  IF PageStops(prs) THEN FetchResult(ReturnedAfterBreak(all_prs), asked)
        ELSE LET all == all_prs \o prs.items
             IN  IF IsLastPage(Len(prs.items), per_page)
                 THEN FetchResult(all, asked)
                 ELSE PullsLoop(server, per_page, NextPage(page), all, asked)

\* GitHubClient.fetch_pull_requests (lines 440-507)
fetch_pull_requests(server, per_page) == PullsLoop(server, per_page, 1, <<>>, <<>>)

RECURSIVE CommitsLoop(_, _, _, _, _)
CommitsLoop(server, per_page, page, all_commits, reqs) ==
    LET commits == PageOf(server, page)
        asked   == Append(reqs, PageRequest(page, per_page))
    IN  IF PageStops(commits)
        THEN FetchResult(ReturnedAfterBreak(all_commits), asked)
        ELSE LET all == all_commits \o commits.items
             IN  IF IsLastPage(Len(commits.items), per_page)
                 THEN FetchResult(all, asked)
                 ELSE CommitsLoop(server, per_page, NextPage(page), all, asked)

\* GitHubClient.fetch_commits (lines 546-616)
fetch_commits(server, per_page) == CommitsLoop(server, per_page, 1, <<>>, <<>>)

NoFetch == FetchResult(<<>>, <<>>)

PageInit ==
    /\ page_op = "none"
    /\ page_server = <<>>
    /\ page_args = [per_page |-> 0]
    /\ page_out = NoFetch

FetchIssues(server, per_page) ==
    /\ page_op' = "issues"
    /\ page_server' = server
    /\ page_args' = [per_page |-> per_page]
    /\ page_out' = fetch_issues(server, per_page)
    /\ UNCHANGED non_page_vars

FetchPullRequests(server, per_page) ==
    /\ page_op' = "pulls"
    /\ page_server' = server
    /\ page_args' = [per_page |-> per_page]
    /\ page_out' = fetch_pull_requests(server, per_page)
    /\ UNCHANGED non_page_vars

FetchCommits(server, per_page) ==
    /\ page_op' = "commits"
    /\ page_server' = server
    /\ page_args' = [per_page |-> per_page]
    /\ page_out' = fetch_commits(server, per_page)
    /\ UNCHANGED non_page_vars

\* The caller is done with the list.
PageReturn ==
    /\ page_op # "none"
    /\ page_op' = "none"
    /\ page_server' = <<>>
    /\ page_args' = [per_page |-> 0]
    /\ page_out' = NoFetch
    /\ UNCHANGED non_page_vars

RunFetchIssues ==
    /\ page_op = "none"
    /\ \E per_page \in 1..MaxPerPage :
          \E server \in Servers(per_page) : FetchIssues(server, per_page)

RunFetchPullRequests ==
    /\ page_op = "none"
    /\ \E per_page \in 1..MaxPerPage :
          \E server \in Servers(per_page) : FetchPullRequests(server, per_page)

RunFetchCommits ==
    /\ page_op = "none"
    /\ \E per_page \in 1..MaxPerPage :
          \E server \in Servers(per_page) : FetchCommits(server, per_page)

PageNext ==
    \/ RunFetchIssues
    \/ RunFetchPullRequests
    \/ RunFetchCommits
    \/ PageReturn

\* ------------------------------------------------ issues with a limit
\* largest limit_issues / limit argument
MaxLimit == 2

\* GitHubDataLoader._load_content_type("issue", limit_issues, max_files)
\* (data_loader.py lines 53-58): the rows of self.issues_df after the call,
\* pd.DataFrame(self.github_client.fetch_issues()) having one row per issue.
load_issues(server, per_page, limit_issues) == fetch_issues(server, per_page)

\* GitHubRagTool.fetch_issues(state, limit) of main.py (lines 285-319)
RECURSIVE MainIssuesLoop(_, _, _, _, _, _)
MainIssuesLoop(server, per_page, limit, page, issues, reqs) ==
    IF ~(Len(issues) < limit) THEN FetchResult(Take(issues, limit), reqs)
    ELSE LET page_issues == PageOf(server, page)
             asked == Append(reqs, PageRequest(page, per_page))
         IN  IF page_issues = None \/ ~Truthy(page_issues)
             THEN FetchResult(Take(issues, limit), asked)
             ELSE MainIssuesLoop(server, per_page, limit, page + 1,
                                 issues \o page_issues.items, asked)

main_fetch_issues(server, per_page, limit) ==
    MainIssuesLoop(server, per_page, limit, 1, <<>>, <<>>)

\* data_loader.load_data(["issue"], limit_issues=N), as build_knowledge_base
\* and add_more_content call it (rag_tool.py lines 163-167, 437-441)
LoadDataIssues(server, per_page, limit_issues) ==
    /\ page_op' = "load_data"
    /\ page_server' = server
    /\ page_args' = [per_page |-> per_page, limit |-> limit_issues]
    /\ page_out' = load_issues(server, per_page, limit_issues)
    /\ UNCHANGED non_page_vars

\* main.py: self.fetch_issues(limit=limit_issues)
MainFetchIssues(server, per_page, limit) ==
    /\ page_op' = "main"
    /\ page_server' = server
    /\ page_args' = [per_page |-> per_page, limit |-> limit]
    /\ page_out' = main_fetch_issues(server, per_page, limit)
    /\ UNCHANGED non_page_vars

RunLoadDataIssues ==
    /\ page_op = "none"
    /\ \E per_page \in 1..MaxPerPage, limit \in {NoBudget} \cup (0..MaxLimit) :
          \E server \in Servers(per_page) :
              LoadDataIssues(server, per_page, limit)

RunMainFetchIssues ==
    /\ page_op = "none"
    /\ \E per_page \in 1..MaxPerPage, limit \in 0..MaxLimit :
          \E server \in Servers(per_page) :
              MainFetchIssues(server, per_page, limit)

LimitNext ==
    \/ RunLoadDataIssues
    \/ RunMainFetchIssues
    \/ PageReturn

\* ---------------------------------------------------- GitHubRagTool
\* (src/github_rag/rag_tool.py)  What the libraries and the network do in
\* one call is an input of the call, `env`.
\* largest stats["queries_count"]
MaxQueries == 2

\* the keyword arguments _setup_conversation_manager passes to
\* ConversationManager (rag_tool.py lines 251-259) and the parameters
\* ConversationManager.__init__ has (conversation.py lines 20-31)
SetupKeywords == {"retriever", "model_name", "session_id", "temperature",
                  "memory_enabled", "memory_window", "max_tokens"}
ConversationManagerParams ==
    {"retriever", "model_name", "session_id", "temperature", "memory_enabled",
     "memory_window", "retriever_k", "streaming", "verbose"}

\* the methods configure calls on the conversation manager (rag_tool.py
\* lines 111-115) and the methods ConversationManager has
ConfigureCalls == {"set_memory_enabled", "set_memory_window"}
ConversationManagerMethods ==
    {"setup_conversation", "query", "clear_memory", "get_stats", "save_session"}

ToolState ==
    [is_data_loaded |-> is_data_loaded,
     is_vectordb_ready |-> is_vectordb_ready,
     is_conversation_ready |-> is_conversation_ready,
     conversation_manager |-> conversation_manager,
     vector_db |-> vector_db]

Returned(s, ret) == [s |-> s, ret |-> ret]

\* _setup_conversation_manager raises: get_retriever on a vector store
\* without a base (vector_store.py line 257), the call of
\* ConversationManager with a keyword it does not have (TypeError), or the
\* construction of the chain failing (env.conv_ok false)
SetupRaises(s, env) ==
    \/ s.vector_db = "None"
    \/ ~(SetupKeywords \subseteq ConversationManagerParams)
    \/ ~env.conv_ok

\* _setup_conversation_manager when it does not raise (lines 240-261)
setup_conversation_manager(s) ==
    [s EXCEPT !.conversation_manager = "ConversationManager",
              !.is_conversation_ready = TRUE]

\* self.vector_db after vector_store.load_vector_db / create_vector_db that
\* ended as `how`: "True", "False" (nothing built) or "RaisedAfterSet" (an
\* exception after the assignment to self.vector_db; False is returned)
vector_db_after(s, how) ==
    IF how \in {"True", "RaisedAfterSet"} THEN [s EXCEPT !.vector_db = "Chroma"]
    ELSE s

\* _load_existing_knowledge_base (lines 214-238)
load_existing_knowledge_base(s, env) ==
    LET s1 == vector_db_after(s, env.load_existing)
        s2 == [s1 EXCEPT !.is_vectordb_ready = TRUE]
    IN  IF env.load_existing # "True" THEN Returned(s1, FALSE)
        ELSE IF SetupRaises(s2, env) THEN Returned(s2, FALSE)
        ELSE Returned(setup_conversation_manager(s2), TRUE)

\* build_knowledge_base from `try:` on (lines 159-212)
build_from_repository_ready_early(s, env) ==
    LET s1 == [s EXCEPT !.is_data_loaded = TRUE]
        s2 == vector_db_after(s1, env.create)
        s3 == [s2 EXCEPT !.is_vectordb_ready = TRUE,
                         !.is_conversation_ready = TRUE]
    IN  IF ~env.load_ok THEN Returned(s, FALSE)
        ELSE IF env.docs = 0 THEN Returned(s1, FALSE)
        ELSE IF env.create # "True" THEN Returned(s2, FALSE)
        ELSE IF SetupRaises(s3, env) THEN Returned(s3, FALSE)
        ELSE Returned(setup_conversation_manager(s3), TRUE)
build_from_repository(s, env) ==
    LET s1 == [s EXCEPT !.is_data_loaded = TRUE]
        s2 == vector_db_after(s1, env.create)
        s3 == [s2 EXCEPT !.is_vectordb_ready = TRUE]
    IN  IF ~env.load_ok THEN Returned(s, FALSE)
        ELSE IF env.docs = 0 THEN Returned(s1, FALSE)
        ELSE IF env.create # "True" THEN Returned(s2, FALSE)
        ELSE IF SetupRaises(s3, env) THEN Returned(s3, FALSE)
        ELSE Returned(setup_conversation_manager(s3), TRUE)

\* build_knowledge_base (lines 117-212)
build_knowledge_base(s, env) ==
    IF env.db_exists /\ ~env.rebuild
    THEN LET r == load_existing_knowledge_base(s, env)
         IN  IF r.ret THEN r ELSE build_from_repository(r.s, env)
    ELSE build_from_repository(s, env)

\* add_more_content after its guard (lines 432-469)
add_more_content(s, env) ==
    IF ~env.load_ok \/ env.docs = 0 THEN Returned(s, FALSE)
    ELSE IF s.vector_db = "None"
    THEN Returned(vector_db_after(s, env.create), env.create = "True")
    ELSE Returned(s, env.create = "True")

\* reset (lines 471-508)
reset(s, delete_db, delete_ok) ==
    LET s1 == [s EXCEPT !.is_data_loaded = FALSE,
                        !.is_vectordb_ready = FALSE,
                        !.is_conversation_ready = FALSE,
                        !.conversation_manager = "None"]
    IN  IF delete_db /\ s.vector_db # "None" /\ delete_ok
        THEN Returned([s1 EXCEPT !.vector_db = "None"], TRUE)
        ELSE Returned(s1, TRUE)

BuildEnvs ==
    [rebuild : BOOLEAN, db_exists : BOOLEAN,
     load_existing : {"True", "False", "RaisedAfterSet"},
     load_ok : BOOLEAN, docs : 0..1,
     create : {"True", "False", "RaisedAfterSet"}, conv_ok : BOOLEAN]

NoEnv == [rebuild |-> FALSE, db_exists |-> FALSE, load_existing |-> "False",
          load_ok |-> FALSE, docs |-> 0, create |-> "False", conv_ok |-> FALSE]

ToolOut(op, ret, env) == [op |-> op, ret |-> ret, env |-> env]

\* GitHubRagTool.__init__ (lines 52-77)
ToolInit ==
    /\ is_data_loaded = FALSE
    /\ is_vectordb_ready = FALSE
    /\ is_conversation_ready = FALSE
    /\ conversation_manager = "None"
    /\ vector_db = "None"
    /\ queries_count = 0
    /\ built = FALSE
    /\ tool_out = ToolOut("init", "None", NoEnv)

SetTool(s) ==
    /\ is_data_loaded' = s.is_data_loaded
    /\ is_vectordb_ready' = s.is_vectordb_ready
    /\ is_conversation_ready' = s.is_conversation_ready
    /\ conversation_manager' = s.conversation_manager
    /\ vector_db' = s.vector_db

Bool(b) == IF b THEN "True" ELSE "False"

BuildKnowledgeBase(env) ==
    LET r == build_knowledge_base(ToolState, env)
    IN  /\ SetTool(r.s)
        /\ tool_out' = ToolOut("build_knowledge_base", Bool(r.ret), env)
        /\ built' = (built \/ r.ret)
        /\ UNCHANGED queries_count
        /\ UNCHANGED non_tool_vars

AddMoreContent(env) ==
    /\ IF ~is_vectordb_ready
       THEN /\ tool_out' = ToolOut("add_more_content", "ValueError", env)
            /\ UNCHANGED <<is_data_loaded, is_vectordb_ready,
                           is_conversation_ready, conversation_manager, vector_db>>
       ELSE LET r == add_more_content(ToolState, env)
            IN  /\ SetTool(r.s)
                /\ tool_out' = ToolOut("add_more_content", Bool(r.ret), env)
    /\ UNCHANGED <<queries_count, built>>
    /\ UNCHANGED non_tool_vars

\* query (lines 263-327): the dictionary returned is "result", or
\* "error_result" when the chain raised
Query(chain_ok) ==
    /\ IF ~is_conversation_ready
       THEN /\ tool_out' = ToolOut("query", "ValueError", NoEnv)
            /\ UNCHANGED queries_count
       ELSE /\ queries_count < MaxQueries
            /\ queries_count' = queries_count + 1
            /\ tool_out' = ToolOut("query",
                                   IF chain_ok THEN "result" ELSE "error_result",
                                   NoEnv)
    /\ UNCHANGED <<is_data_loaded, is_vectordb_ready, is_conversation_ready,
                   conversation_manager, vector_db, built>>
    /\ UNCHANGED non_tool_vars

\* search_sources (lines 361-407): a list, empty when the search raised
SearchSources ==
    /\ tool_out' = ToolOut("search_sources",
                           IF ~is_vectordb_ready THEN "ValueError" ELSE "list",
                           NoEnv)
    /\ UNCHANGED <<is_data_loaded, is_vectordb_ready, is_conversation_ready,
                   conversation_manager, vector_db, queries_count, built>>
    /\ UNCHANGED non_tool_vars

\* configure (lines 100-115) with an option the conversation manager is
\* told about
Configure ==
    /\ tool_out' = ToolOut("configure",
                           IF conversation_manager # "None"
                              /\ ~(ConfigureCalls \subseteq ConversationManagerMethods)
                           THEN "AttributeError" ELSE "None",
                           NoEnv)
    /\ UNCHANGED <<is_data_loaded, is_vectordb_ready, is_conversation_ready,
                   conversation_manager, vector_db, queries_count, built>>
    /\ UNCHANGED non_tool_vars

Reset(delete_db, delete_ok) ==
    LET r == reset(ToolState, delete_db, delete_ok)
    IN  /\ SetTool(r.s)
        /\ tool_out' = ToolOut("reset", Bool(r.ret), NoEnv)
        /\ queries_count' = 0
        /\ built' = FALSE
        /\ UNCHANGED non_tool_vars

RunBuildKnowledgeBase == \E env \in BuildEnvs : BuildKnowledgeBase(env)
RunAddMoreContent == \E env \in BuildEnvs : AddMoreContent(env)
RunQuery == \E chain_ok \in BOOLEAN : Query(chain_ok)
RunReset == \E delete_db \in BOOLEAN, delete_ok \in BOOLEAN : Reset(delete_db, delete_ok)

ToolNext ==
    \/ RunBuildKnowledgeBase
    \/ RunAddMoreContent
    \/ RunQuery
    \/ SearchSources
    \/ Configure
    \/ RunReset

\* ------------------------------------- two fetches on one client at once
\* (GitHubClient._get_from_cache / _save_to_cache, lines 88-125, called by
\* threads that share the client; the code takes no lock)
\* threads that call the client
MaxThreads == 2
Threads == 1..MaxThreads

\* The responses the threads receive for the one request they all make
ConcPayloads ==
    {[kind |-> "list", items |-> <<"a", "b">>],
     [kind |-> "list", items |-> <<"b", "a">>],
     [kind |-> "dict", items |-> <<"a">>]}

\* f.write of `chunk` by a file object whose position is `off`: the chunk
\* replaces what the file holds from there on and extends it if needed; a
\* position past the end leaves a hole of NUL characters.
RECURSIVE Nuls(_)
Nuls(n) == IF n = 0 THEN <<>> ELSE <<"NUL">> \o Nuls(n - 1)

WriteAt(text, off, chunk) ==
    LET padded == IF off > Len(text) THEN text \o Nuls(off - Len(text)) ELSE text
        upto   == off + Len(chunk)
    IN  SubSeq(padded, 1, off) \o chunk
        \o (IF upto < Len(padded) THEN SubSeq(padded, upto + 1, Len(padded))
            ELSE <<>>)

\* _get_from_cache on the file as it is at this moment (lines 94-111)
read_cache_file(file) ==
    IF ~use_cache THEN None
    ELSE IF file.exists /\ FreshEnough(now - file.mtime, cache_ttl)
    THEN LET r == json_load(file.text)
         IN  IF r.ok THEN r.v ELSE OnReadError
    ELSE None

ConcInit ==
    /\ conc_file = NoFile
    /\ conc_pc = [t \in Threads |-> "idle"]
    /\ conc_data = [t \in Threads |-> None]
    /\ conc_pos = [t \in Threads |-> 0]
    /\ conc_off = [t \in Threads |-> 0]
    /\ conc_got = None
    /\ conc_gets = 0
    /\ conc_handed = {}

\* a thread's _get_from_cache
ConcGet(t) ==
    /\ conc_pc[t] = "idle"
    /\ conc_got' = read_cache_file(conc_file)
    /\ conc_gets' = 1
    /\ UNCHANGED <<conc_file, conc_pc, conc_data, conc_pos, conc_off, conc_handed>>
    /\ UNCHANGED non_conc_vars

\* _save_to_cache(key, data): open(cache_file, "w") empties the file
\* (line 121)
ConcOpen(t, data) ==
    /\ conc_pc[t] = "idle"
    /\ use_cache
    /\ conc_file' = [exists |-> TRUE, mtime |-> now, text |-> <<>>]
    /\ conc_pc' = [conc_pc EXCEPT ![t] = "writing"]
    /\ conc_data' = [conc_data EXCEPT ![t] = data]
    /\ conc_pos' = [conc_pos EXCEPT ![t] = 0]
    /\ conc_off' = [conc_off EXCEPT ![t] = 0]
    /\ conc_handed' = conc_handed \cup {data}
    /\ UNCHANGED <<conc_got, conc_gets>>
    /\ UNCHANGED non_conc_vars

\* json.dump hands the next chunk to the file (line 122), which writes it
\* at the position of this thread's file object; a chunk the codec refuses
\* ends the call (lines 124-125)
ConcWrite(t) ==
    /\ conc_pc[t] = "writing"
    /\ conc_pos[t] < Len(json_dump_chunks(conc_data[t]))
    /\ LET chunk == json_dump_chunks(conc_data[t])[conc_pos[t] + 1]
       IN  IF Encodable(chunk)
           THEN /\ conc_file' = [conc_file EXCEPT
                                    !.text = WriteAt(@, conc_off[t], chunk),
                                    !.mtime = now]
                /\ conc_pos' = [conc_pos EXCEPT ![t] = @ + 1]
                /\ conc_off' = [conc_off EXCEPT ![t] = @ + Len(chunk)]
                /\ UNCHANGED conc_pc
           ELSE /\ conc_pc' = [conc_pc EXCEPT ![t] = "idle"]
                /\ UNCHANGED <<conc_file, conc_pos, conc_off>>
    /\ UNCHANGED <<conc_data, conc_got, conc_gets, conc_handed>>
    /\ UNCHANGED non_conc_vars

\* the `with` block ends: the file is closed
ConcClose(t) ==
    /\ conc_pc[t] = "writing"
    /\ conc_pos[t] = Len(json_dump_chunks(conc_data[t]))
    /\ conc_pc' = [conc_pc EXCEPT ![t] = "idle"]
    /\ UNCHANGED <<conc_file, conc_data, conc_pos, conc_off, conc_got,
                   conc_gets, conc_handed>>
    /\ UNCHANGED non_conc_vars

RunConcGet == \E t \in Threads : ConcGet(t)
RunConcOpen == \E t \in Threads, data \in ConcPayloads : ConcOpen(t, data)
RunConcWrite == \E t \in Threads : ConcWrite(t)
RunConcClose == \E t \in Threads : ConcClose(t)

ConcNext ==
    \/ RunConcGet
    \/ RunConcOpen
    \/ RunConcWrite
    \/ RunConcClose

\* ------------------------------------------- fingerprints of requests
MaxParams == 2
ParamDicts ==
    {d \in SeqsUpTo(ParamKeySet \X ParamValues, MaxParams) :
        \A i, j \in 1..Len(d) : i # j => d[i][1] # d[j][1]}
ParamArgs == {NoParams} \cup {Dict(d) : d \in ParamDicts}

NoFp == [url |-> "", params |-> NoParams, key |-> <<>>]

FpInit == fp_a = NoFp /\ fp_b = NoFp

\* self._get_cache_key(url, params) for two requests
GetCacheKeys(u1, p1, u2, p2) ==
    /\ fp_a' = [url |-> u1, params |-> p1, key |-> get_cache_key(u1, p1)]
    /\ fp_b' = [url |-> u2, params |-> p2, key |-> get_cache_key(u2, p2)]
    /\ UNCHANGED non_fp_vars

FpReturn ==
    /\ fp_a # NoFp
    /\ fp_a' = NoFp
    /\ fp_b' = NoFp
    /\ UNCHANGED non_fp_vars

RunGetCacheKeys ==
    /\ fp_a = NoFp
    /\ \E u1 \in Urls, u2 \in Urls, p1 \in ParamArgs, p2 \in ParamArgs :
          GetCacheKeys(u1, p1, u2, p2)

FpNext ==
    \/ RunGetCacheKeys
    \/ FpReturn

\* ------------------------------------------------ client construction
\* longest repository URL, in tokens
MaxUrlLen == 5

\* A repository URL is a sequence of tokens, each standing for the
\* characters of its name; "x" is a character of a name (not "/", not "."),
\* "https://" stands for both schemes and " " for white space.
UrlTokens == {"https://", "www.", "github.com/", "git@github.com:", "x", "/",
              ".git", " "}
RepoUrls == SeqsUpTo(UrlTokens, MaxUrlLen)

HasSlash(tok) == tok \in {"https://", "github.com/", "/"}
HasDot(tok) == tok \in {"www.", "github.com/", "git@github.com:", ".git"}

\* url.strip()
RECURSIVE lstrip(_), rstrip(_)
lstrip(s) == IF s # <<>> /\ Head(s) = " " THEN lstrip(Tail(s)) ELSE s
rstrip(s) ==
    IF s # <<>> /\ s[Len(s)] = " " THEN rstrip(SubSeq(s, 1, Len(s) - 1)) ELSE s
strip(s) == rstrip(lstrip(s))

\* the longest prefix of s made of tokens of `class`: what a greedy
\* character class such as [^/]+ takes
RECURSIVE Run(_, _)
Run(s, class) ==
    IF s # <<>> /\ Head(s) \in class THEN <<Head(s)>> \o Run(Tail(s), class)
    ELSE <<>>

NotSlash == {tok \in UrlTokens : ~HasSlash(tok)}            \* [^/]
NotSlashNorDot == {tok \in NotSlash : ~HasDot(tok)}         \* [^/\.]

Drop(s, k) == SubSeq(s, k + 1, Len(s))

NoMatch == [ok |-> FALSE, owner |-> <<>>, repo |-> <<>>]

\* ([^/]+)/([^/\.]+) at the head of s, followed by one of `tails` and the
\* end of the text
OwnerRepoMatch(s, tails) ==
    LET owner == Run(s, NotSlash)
        s2    == Drop(s, Len(owner))
        repo  == Run(Drop(s2, 1), NotSlashNorDot)
        rest  == Drop(s2, 1 + Len(repo))
    IN  IF owner # <<>> /\ s2 # <<>> /\ Head(s2) = "/" /\ repo # <<>>
           /\ rest \in tails
        THEN [ok |-> TRUE, owner |-> owner, repo |-> repo]
        ELSE NoMatch

\* re.match(https_pattern, url) (lines 282-290)
https_match(s) ==
    LET s1 == IF s # <<>> /\ Head(s) = "https://" THEN Tail(s) ELSE s
        s2 == IF s1 # <<>> /\ Head(s1) = "www." THEN Tail(s1) ELSE s1
    IN  IF s2 # <<>> /\ Head(s2) = "github.com/"
        THEN OwnerRepoMatch(Tail(s2), {<<>>, <<".git">>, <<"/">>, <<".git", "/">>})
        ELSE NoMatch

\* re.match(ssh_pattern, url) (lines 285, 293-296)
ssh_match(s) ==
    IF s # <<>> /\ Head(s) = "git@github.com:"
    THEN OwnerRepoMatch(Tail(s), {<<>>, <<".git">>})
    ELSE NoMatch

\* parse_github_repo_url: ok FALSE stands for the ValueError of line 299
parse_github_repo_url(url) ==
    LET s == strip(url)
    IN  IF https_match(s).ok THEN https_match(s) ELSE ssh_match(s)

CtorInit ==
    /\ ctor_pc = "none"
    /\ ctor_url = <<>>
    /\ ctor_use_cache = FALSE
    /\ cache_dir = [before |-> FALSE, after |-> FALSE]
    /\ ctor_requests = <<>>

\* cache_dir after __init__: `if use_cache and not os.path.exists(cache_dir):
\* os.makedirs(cache_dir)` (lines 51-52) runs when line 32 did not raise
cache_dir_after_init_eager(parsed, use_cache_arg, exists) ==
    use_cache_arg \/ exists
cache_dir_after_init(parsed, use_cache_arg, exists) ==
    (parsed /\ use_cache_arg) \/ exists

\* GitHubClient.__init__(repo_url, use_cache=...) (lines 22-65)
NewClient(repo_url, use_cache_arg, exists) ==
    LET parsed == parse_github_repo_url(repo_url)
    IN  /\ ctor_pc' = IF parsed.ok THEN "constructed" ELSE "raised"
        /\ ctor_url' = repo_url
        /\ ctor_use_cache' = use_cache_arg
        /\ cache_dir' = [before |-> exists,
                         after |-> cache_dir_after_init(parsed.ok, use_cache_arg,
                                                        exists)]
        /\ ctor_requests' = IF parsed.ok
                            THEN << [owner |-> parsed.owner, repo |-> parsed.repo] >>
                            ELSE <<>>
        /\ UNCHANGED non_ctor_vars

\* The caller is done with the client (or the exception).
CtorReturn ==
    /\ ctor_pc # "none"
    /\ ctor_pc' = "none"
    /\ ctor_url' = <<>>
    /\ ctor_use_cache' = FALSE
    /\ cache_dir' = [before |-> FALSE, after |-> FALSE]
    /\ ctor_requests' = <<>>
    /\ UNCHANGED non_ctor_vars

RunNewClient ==
    /\ ctor_pc = "none"
    /\ \E repo_url \in RepoUrls, use_cache_arg \in BOOLEAN, exists \in BOOLEAN :
          NewClient(repo_url, use_cache_arg, exists)

CtorNext ==
    \/ RunNewClient
    \/ CtorReturn

\* The calls a run makes: at most `limit` of them, with arguments from the
\* given sets.
Calls(limit, params, methods, max_retries, cache_args) ==
    /\ calls < limit
    /\ \E p \in params, m \in methods, mr \in max_retries, ca \in cache_args :
          MakeRequest("issues", p, m, mr, ca)

ExecNext ==
    \/ Calls(MaxCalls, {NoParams}, Methods, 0..MaxRetries, CacheArgs)
    \/ RaiseUnsupported
    \/ \E r \in Responses : Attempt(r)
    \/ Exhausted
    \/ Return
    \/ Tick

vars ==
    <<exec_vars, walk_vars, fp_vars, page_vars, ctor_vars, tool_vars, conc_vars>>

Init ==
    /\ ExecInit /\ WalkInit /\ FpInit /\ PageInit /\ CtorInit /\ ToolInit
    /\ ConcInit

Next == ExecNext

Spec == Init /\ [][Next]_vars

\* A running _make_request goes on running: every HTTP call returns or times
\* out (timeout=30) and every sleep ends.
ExecStep == RaiseUnsupported \/ (\E r \in Responses : Attempt(r)) \/ Exhausted

\* Calls that bypass the cache (use_cache=False): the retry loop alone.
RetryNext ==
    \/ Calls(MaxCalls, {NoParams}, Methods, 0..MaxRetries, {"False"})
    \/ RaiseUnsupported
    \/ \E r \in Responses : Attempt(r)
    \/ Exhausted
    \/ Return
    \/ Tick

FairSpec == Init /\ [][RetryNext]_vars /\ WF_vars(ExecStep)

\* The cache over several calls: GET requests that are answered at once.
CacheResponses == {r \in Responses : r.status \in {200, 404, 500}}

CacheNext ==
    \/ Calls(MaxCacheCalls, ExecParams, {"GET"}, {1}, CacheArgs)
    \/ \E r \in CacheResponses : Attempt(r)
    \/ Exhausted
    \/ Return
    \/ Tick

CacheSpec == Init /\ [][CacheNext]_vars

\* The cache directory (".github_cache" by default, lines 41 and 51-52) may
\* hold files of an earlier run that cached: before this client's first
\* call such a run has left one entry.
EarlierPayloads == {[kind |-> "list", items |-> <<"a">>]}

EarlierRunWrote(f, p) ==
    /\ pc = "idle" /\ calls = 0 /\ now = 0
    /\ \A g \in Fingerprints : ~cache[g].exists
    /\ cache' = [cache EXCEPT ![f] =
                    [exists |-> TRUE, mtime |-> now, text |-> json_dump(p)]]
    /\ UNCHANGED <<now, use_cache, requests_made, cache_hits, pc, call,
                   retries, result, from_cache, http_calls, last_status,
                   sleep_count, quota_waits, last_sleep, calls, stored, puts>>
    /\ UNCHANGED non_exec_vars

RunEarlierRunWrote ==
    \E f \in Fingerprints, p \in EarlierPayloads : EarlierRunWrote(f, p)

SharedDirNext ==
    \/ RunEarlierRunWrote
    \/ Calls(MaxCalls, ExecParams, {"GET"}, {1}, CacheArgs)
    \/ \E r \in CacheResponses : Attempt(r)
    \/ Exhausted
    \/ Return
    \/ Tick

SharedDirSpec == Init /\ [][SharedDirNext]_vars

\* The walks run on a client built with the default use_cache = True
WalkSpecInit == Init /\ use_cache = TRUE

WalkSpec == WalkSpecInit /\ [][WalkNext]_vars

FpSpec == WalkSpecInit /\ [][FpNext]_vars

PageSpec == WalkSpecInit /\ [][PageNext]_vars

CtorSpec == WalkSpecInit /\ [][CtorNext]_vars

LimitSpec == WalkSpecInit /\ [][LimitNext]_vars

ToolSpec == WalkSpecInit /\ [][ToolNext]_vars

ConcSpec == WalkSpecInit /\ [][ConcNext]_vars

\* ------------------------------------------------------------- claims

\* C1: a tree walk invoked with a finite budget B = max_files (directly, or
\* through load_data / build_knowledge_base) returns at most B files.
C1_WalkReturnsAtMostBudget ==
    (walk_op \in {"main", "load_data"} /\ walk_args.max_files # NoBudget)
        => Len(walk_out.files) <= walk_args.max_files

\* C2: a 401, 404 or 422 response ends the call at once with a failure: no
\* sleep follows it and no further HTTP call is issued; when it answers the
\* first attempt, the call made exactly one HTTP call and never slept.
C2_FatalStatusReturnsAtOnce ==
    last_status \in {401, 404, 422}
        => /\ pc = "done"
           /\ result = None
           /\ ~from_cache
           /\ sleep_count = http_calls - 1
           /\ retries = http_calls - 1

C2_Witness ==
    pc = "done" /\ last_status = 404 /\ http_calls = 1 /\ sleep_count = 0

C4_QuotaWaitLongEnough ==
    last_sleep.kind = "quota"
        => /\ now - last_sleep.at
                >= (last_sleep.reset * TicksPerSecond - last_sleep.at)
                   + 2 * TicksPerSecond
           /\ now - last_sleep.at >= 2 * TicksPerSecond

C4_Witness ==
    /\ pc = "done" /\ last_status = 200 /\ http_calls = 2
    /\ last_sleep.kind = "quota"
    /\ last_sleep.reset * TicksPerSecond > last_sleep.at

\* C5: one call of the executor issues at most max_retries HTTP calls,
\* whatever the responses are, and ends: with a returned value when the
\* method is one the executor knows.
C5_BoundedAndTerminates ==
    /\ [](http_calls <= call.max_retries)
    /\ [](pc = "raised" => call.method \notin SupportedMethods)
    /\ (pc = "loop") ~> (pc \in {"done", "raised"})

C5_Witness ==
    /\ pc = "done" /\ http_calls = MaxRetries /\ call.max_retries = MaxRetries
    /\ quota_waits = MaxRetries

\* C6: a call whose every attempt failed in a retryable way made exactly
\* max_retries HTTP calls and returned the failure value; it did not raise.
C6_ExhaustionAfterMaxRetries ==
    /\ (pc = "done" /\ ~from_cache
        /\ last_status \notin {200, 201, 401, 404, 422})
            => (http_calls = call.max_retries /\ result = None)
    /\ pc = "raised" => call.method \notin SupportedMethods

C6_Witness ==
    /\ pc = "done" /\ last_status = 500 /\ http_calls = MaxRetries
    /\ call.max_retries = MaxRetries /\ result = None

\* The cache holds a readable entry for `key` that has not expired.
HoldsReadableFresh(key) ==
    /\ cache[key].exists
    /\ now - cache[key].mtime < cache_ttl
    /\ json_load(cache[key].text).ok

\* C7: a GET with caching allowed that finds a readable, non-expired entry
\* returns the stored payload and issues no HTTP call, whatever the payload.
\* (Before the first HTTP call and sleep of a call, the clock and the cache
\* are those the call found.)
C7_FreshEntryIsServed ==
    (/\ pc \in {"loop", "done"}
     /\ call.method = "GET" /\ call.use_cache
     /\ http_calls = 0 /\ sleep_count = 0
     /\ HoldsReadableFresh(call.cache_key))
        => /\ pc = "done"
           /\ from_cache
           /\ result = json_load(cache[call.cache_key].text).v

\* C8: a cache read returns absent once now - stored_at >= ttl, the entry
\* still being there, and the executor never returns from the cache a
\* payload that old.
C8_ExpiredEntryIsAbsent ==
    /\ \A f \in Fingerprints :
          (cache[f].exists /\ now - cache[f].mtime >= cache_ttl)
              => get_from_cache(f) = [v |-> None, hit |-> 0]
    /\ (pc = "done" /\ from_cache)
          => now - cache[call.cache_key].mtime < cache_ttl

C8_Witness ==
    /\ pc = "loop" /\ call.method = "GET" /\ call.use_cache
    /\ http_calls = 0
    /\ cache[call.cache_key].exists
    /\ now - cache[call.cache_key].mtime = cache_ttl
    /\ Truthy(stored[call.cache_key])

\* C9: after put(f, payload), a get(f) within the TTL window returns the
\* payload stored, for every fingerprint and payload.
C9_CacheRoundTrip ==
    \A f \in Fingerprints :
        (use_cache /\ cache[f].exists /\ now - cache[f].mtime < cache_ttl)
            => get_from_cache(f).v = stored[f]

\* Python's dict equality of two params arguments (None is sent as {}).
PairsOf(params) == {params.items[i] : i \in 1..Len(params.items)}
SameParams(p1, p2) == PairsOf(p1) = PairsOf(p2)
SameKeysOtherValue(p1, p2) ==
    /\ KeysOf(p1.items) = KeysOf(p2.items)
    /\ PairsOf(p1) # PairsOf(p2)

\* C10: two requests with the same URL and the same parameters, in any key
\* order, get the same fingerprint; with the value of some parameter
\* changed they get different fingerprints.
C10_FingerprintDeterminism ==
    (fp_a # NoFp /\ fp_a.url = fp_b.url)
        => /\ SameParams(fp_a.params, fp_b.params) => fp_a.key = fp_b.key
           /\ SameKeysOtherValue(fp_a.params, fp_b.params) => fp_a.key # fp_b.key

C10_Witness ==
    /\ fp_a # NoFp /\ fp_a.url = fp_b.url
    /\ Len(fp_a.params.items) = 2
    /\ SameParams(fp_a.params, fp_b.params)
    /\ fp_a.params # fp_b.params
    /\ fp_a.key = fp_b.key

\* The cache holds for `key` an entry that json.load cannot read.
Corrupt(key) == cache[key].exists /\ ~json_load(cache[key].text).ok

\* C11: a corrupt cache entry is a cache miss: the read returns absent, the
\* call does not raise, and the executor goes to the network as it does
\* when there is no entry.
C11_CorruptEntryIsMiss ==
    /\ \A f \in Fingerprints : Corrupt(f) => get_from_cache(f).v = None
    /\ (/\ pc \in {"loop", "done", "raised"}
        /\ call.method = "GET" /\ call.use_cache
        /\ http_calls = 0 /\ sleep_count = 0
        /\ Corrupt(call.cache_key))
           => (pc = "loop" /\ ~from_cache /\ result = None
               /\ LoopContinues(retries, call.max_retries))

C11_Witness ==
    /\ pc = "loop" /\ call.method = "GET" /\ call.use_cache
    /\ http_calls = 0
    /\ Corrupt(call.cache_key)
    /\ now - cache[call.cache_key].mtime < cache_ttl

\* The unmarked items of the pages asked for by requests 1..n, in the
\* order the server gave them.
RECURSIVE UnmarkedOfFirst(_)
UnmarkedOfFirst(n) ==
    IF n = 0 THEN <<>>
    ELSE UnmarkedOfFirst(n - 1)
         \o SelectSeq(PageOf(page_server, page_out.reqs[n].page).items,
                      LAMBDA it : ~it.pull_request)

\* C12: fetch_issues returns the in-order concatenation, over the pages it
\* fetched, of exactly the items that carry no pull-request marker.
C12_IssuesAreUnmarkedItemsInOrder ==
    page_op = "issues"
        => page_out.out = UnmarkedOfFirst(Len(page_out.reqs))

\* pages of 2, 2 and 1 items, marked items among them: 4 records come back
C12_Witness ==
    /\ page_op = "issues" /\ page_args.per_page = 2
    /\ Len(page_out.reqs) = 3
    /\ Len(page_server[3].items) = 1
    /\ page_server[2].items[1].pull_request
    /\ Len(page_out.out) = 4

\* C13: a paginated fetch asks for pages 1, 2, 3, ... once each, in order,
\* always with the per_page it was given; the last page it asks for is the
\* first one that is short, empty or absent.
C13_PagesInOrderUntilShortPage ==
    page_op # "none"
        => LET n == Len(page_out.reqs)
               Short(k) == LET p == PageOf(page_server, k)
                           IN  p = None \/ Len(p.items) < page_args.per_page
           IN  /\ n >= 1
               /\ \A i \in 1..n :
                     page_out.reqs[i] = PageRequest(i, page_args.per_page)
               /\ \A i \in 1..(n - 1) : ~Short(i)
               /\ Short(n)

C13_Witness ==
    /\ page_op = "commits" /\ page_args.per_page = 2
    /\ Len(page_out.reqs) = 3
    /\ Len(page_server[3].items) = 1
    /\ Len(page_out.out) = 5

\* C14: in fetch_issues a page that arrives full is followed by a request
\* for the next page, whatever the pull-request filter keeps of it, and a
\* page that arrives short is the last one asked for.
C14_RawSizeDecides ==
    page_op = "issues"
        => \A i \in 1..Len(page_out.reqs) :
              LET p == PageOf(page_server, i)
              IN  IF p # None /\ Len(p.items) >= page_args.per_page
                  THEN i < Len(page_out.reqs)
                  ELSE i = Len(page_out.reqs)

\* a full page of pull requests only, and the fetch went on to page 2
C14_Witness ==
    /\ page_op = "issues" /\ page_args.per_page = 2
    /\ Len(page_out.reqs) >= 2
    /\ \A i \in 1..2 : page_server[1].items[i].pull_request
    /\ page_out.out # <<>>

\* The items of pages 1..n as the fetch page_op accumulates them.
RECURSIVE AccumulatedFrom(_)
AccumulatedFrom(n) ==
    IF n = 0 THEN <<>>
    ELSE AccumulatedFrom(n - 1)
         \o SelectSeq(PageOf(page_server, n).items,
                      LAMBDA it : page_op = "issues" => ~it.pull_request)

\* C15: when the request for page k fails, the fetch returns the records
\* accumulated from pages 1..k-1 and asks for no further page.
C15_FailedPageEndsFetch ==
    page_op # "none"
        => \A i \in 1..Len(page_out.reqs) :
              PageOf(page_server, page_out.reqs[i].page) = None
                  => /\ i = Len(page_out.reqs)
                     /\ page_out.out = AccumulatedFrom(page_out.reqs[i].page - 1)

C15_Witness ==
    /\ page_op = "issues"
    /\ Len(page_out.reqs) = 3
    /\ page_server[3] = None
    /\ page_server[1].items[1].pull_request
    /\ Len(page_out.out) = 3

\* C16 (as claimed): a 403 or 429 response that does not report the quota
\* exhausted is followed by a wait of exactly Retry-After when it carries
\* that header, for both statuses, and by an exponential backoff only when
\* it does not.
C16_RetryAfterHonouredOn403And429 ==
    [][\A r \in Responses :
          (Attempt(r) /\ r.status \in {403, 429} /\ r.remaining # 0)
              => IF r.retry_after # -1
                 THEN /\ last_sleep'.kind = "retry_after"
                      /\ now' - now = r.retry_after * TicksPerSecond
                 ELSE last_sleep'.kind = "backoff"]_vars

\* C16 (amended): only a 429 response has its Retry-After header honoured:
\* the wait is exactly that duration.  A 403 response is followed by the
\* exponential backoff whether or not it carries Retry-After, as is a 429
\* without the header.
C16_RetryAfterHonouredOn429Only ==
    [][\A r \in Responses :
          (Attempt(r) /\ r.status \in {403, 429} /\ r.remaining # 0)
              => IF r.status = 429 /\ r.retry_after # -1
                 THEN /\ last_sleep'.kind = "retry_after"
                      /\ now' - now = r.retry_after * TicksPerSecond
                 ELSE /\ last_sleep'.kind = "backoff"
                      /\ now' - now = Pow2(retries) * TicksPerSecond
                                      + (now % TicksPerSecond)]_vars

C16_Witness ==
    /\ pc = "loop" /\ last_status = 429
    /\ last_sleep.kind = "retry_after"
    /\ now - last_sleep.at = TicksPerSecond

\* C17: when a GET that may use the cache (the client and the call both
\* allow it) gets a 200/201 response, the cache holds the response payload
\* under the request's fingerprint by the time the executor returns; a call
\* with a method other than GET neither reads nor writes the cache.
C17_SuccessfulGetIsCached ==
    /\ [](  (/\ pc = "done" /\ ~from_cache
             /\ last_status \in {200, 201}
             /\ call.method = "GET" /\ call.use_cache /\ use_cache)
               => /\ cache[call.cache_key].exists
                  /\ cache[call.cache_key].mtime = now
                  /\ json_load(cache[call.cache_key].text) = ParseOk(result))
    /\ [][(pc' # "idle" /\ call'.method \in {"POST", "PUT", "DELETE"})
              => (cache' = cache /\ cache_hits' = cache_hits)]_vars

\* C18: a backoff wait that follows k counted attempts (k = 0, 1, 2, ...)
\* lasts 2^k seconds plus a jitter in [0, 1), k being the number of
\* attempts counted so far; a backoff wait is strictly longer than the
\* backoff wait before it.
C18_BackoffDoubles ==
    /\ [](last_sleep.kind = "backoff"
            => /\ retries >= 1
               /\ last_sleep.dur >= Pow2(retries - 1) * TicksPerSecond
               /\ last_sleep.dur < (Pow2(retries - 1) + 1) * TicksPerSecond)
    /\ [][(sleep_count' = sleep_count + 1 /\ last_sleep'.kind = "backoff")
             => /\ retries = http_calls
                /\ retries' = retries + 1
                /\ now' - now = last_sleep'.dur
                /\ last_sleep.kind = "backoff"
                      => last_sleep'.dur > last_sleep.dur]_vars

C18_Witness ==
    /\ pc = "loop" /\ retries = 2 /\ last_sleep.kind = "backoff"
    /\ last_sleep.dur > 2 * TicksPerSecond
    /\ last_sleep.dur < 3 * TicksPerSecond

\* The files a walk had added to its list when it made the i-th step of
\* its trace.
CollectedBefore(i) ==
    Cardinality({j \in 1..(i - 1) : walk_out.trace[j].ev = "file"})

\* C19: in a walk with a budget, no directory listing is requested once the
\* files collected so far have reached the budget: every listing after the
\* first is requested with fewer than max_files files collected.
C19_NoListingOnceBudgetReached ==
    (walk_op \in {"main", "load_data"} /\ walk_args.max_files # NoBudget)
        => \A i \in 2..Len(walk_out.trace) :
              walk_out.trace[i].ev = "list"
                  => CollectedBefore(i) < walk_args.max_files

\* Entry i of tree t lies under no excluded directory.
RECURSIVE UnderNoExcludedDir(_, _)
UnderNoExcludedDir(t, i) ==
    \/ t.parent[i] = 0
    \/ /\ t.kind[t.parent[i]] \notin exclude_dirs
       /\ UnderNoExcludedDir(t, t.parent[i])

\* The admissible files of tree t, at every depth: files with one of the
\* extensions asked for (any extension when none is asked for), not larger
\* than max_file_size, under no excluded directory.
AdmissibleFiles(t, exts) ==
    {i \in 1..t.n :
        /\ item_type(t.kind[i]) = "file"
        /\ exts = {} \/ Extension(t.kind[i]) \in exts
        /\ ~TooBig(t.kind[i])
        /\ UnderNoExcludedDir(t, i)}

RECURSIVE UnderNoFailedDir(_, _, _)
UnderNoFailedDir(t, bad, i) ==
    \/ t.parent[i] = 0
    \/ /\ t.parent[i] \notin bad
       /\ UnderNoFailedDir(t, bad, t.parent[i])

\* The entries of tree t a recursive walk comes to when the requests for
\* `bad` fail: those under no excluded and no failed directory.
Visited(t, bad) ==
    {i \in 1..t.n : 0 \notin bad /\ UnderNoExcludedDir(t, i)
                                /\ UnderNoFailedDir(t, bad, i)}

SeqRange(s) == {s[i] : i \in 1..Len(s)}

\* C21: in a recursive walk a failed listing or download is not raised and
\* costs only the records of that subtree or file: every other entry is
\* still processed (every directory the walk comes to is listed, every
\* admissible file it comes to is requested) and the walk returns every
\* admissible file that was downloaded, outside the failed directories.
C21_FailureCostsOnlyItsSubtree ==
    (walk_op \in {"client", "load_data"} /\ walk_args.recursive)
        => LET t == walk_tree
               seen == Visited(t, walk_bad)
               adm == AdmissibleFiles(t, file_extensions(walk_args.file_extensions))
           IN  /\ SeqRange(walk_out.files) = (seen \cap adm) \ walk_bad
               /\ SeqRange(walk_out.downloads) = seen \cap adm
               /\ SeqRange(walk_out.reqs)
                     = {0} \cup {i \in seen : item_type(t.kind[i]) = "dir"
                                              /\ ~ExcludedName(t.kind[i])}
               /\ Len(walk_out.files) = Cardinality(SeqRange(walk_out.files))

\* a directory whose listing fails between two files: both are returned
C21_Witness ==
    /\ walk_op = "client" /\ walk_args.recursive
    /\ walk_tree.n = 3
    /\ walk_tree.kind = <<"py", "dir", "py">>
    /\ walk_tree.parent = <<0, 0, 0>>
    /\ walk_bad = {2}
    /\ walk_out.files = <<1, 3>>

\* The binary/media/log extensions, of which ".png" is one.
BinaryMediaLogExtensions == {".png"}

\* C22: a file-content download is issued only for an entry that is a file,
\* whose extension is not a binary/media/log one, that matches the
\* extension allow-list when one is configured, and that is not larger
\* than max_file_size; no excluded directory is listed, at any depth.  For
\* every allow-list, the empty one included.
C22_OnlyAdmissibleFilesAreDownloaded ==
    walk_op \in {"client", "load_data"}
        => LET t == walk_tree
               exts == file_extensions(walk_args.file_extensions)
           IN  /\ \A i \in SeqRange(walk_out.downloads) :
                     /\ item_type(t.kind[i]) = "file"
                     /\ Extension(t.kind[i]) \notin BinaryMediaLogExtensions
                     /\ exts # {} => Extension(t.kind[i]) \in exts
                     /\ ~TooBig(t.kind[i])
               /\ \A d \in SeqRange(walk_out.reqs) :
                     d # 0 => (~ExcludedName(t.kind[d]) /\ UnderNoExcludedDir(t, d))

\* A URL that is clearly not one of a GitHub repository: it names no GitHub
\* host, or it has no "/" that could stand between an owner and a
\* repository.
ClearlyMalformed(url) ==
    \/ \A i \in 1..Len(url) : url[i] \notin {"github.com/", "git@github.com:"}
    \/ \A i \in 1..Len(url) : url[i] # "/"

\* C23: constructing the client with a malformed repository URL raises, and
\* the error comes before any other effect: no executor call was made (the
\* repository-info request included) and no cache directory was created.
C23_MalformedUrlRaisesBeforeEffects ==
    /\ (ctor_pc # "none" /\ ClearlyMalformed(ctor_url)) => ctor_pc = "raised"
    /\ ctor_pc = "raised"
          => /\ ctor_requests = <<>>
             /\ cache_dir.after = cache_dir.before

\* https://x/x/x with use_cache = True and no cache directory yet
C23_Witness ==
    /\ ctor_pc = "raised"
    /\ ctor_url = <<"https://", "x", "/", "x">>
    /\ ctor_use_cache /\ ~cache_dir.before /\ ~cache_dir.after

\* The last write _save_to_cache made for fingerprint f.
LastPut(f) == puts[f][Len(puts[f])]

\* C24: after put(f, p1) then put(f, p2), a get(f) within the TTL returns
\* p2, and the TTL window is measured from the second write: the get
\* returns p2 while less than ttl has passed since that write, and absent
\* from then on.
C24_SecondWriteWins ==
    \A f \in Fingerprints :
        (use_cache /\ Len(puts[f]) >= 2)
            => IF now - LastPut(f).at < cache_ttl
               THEN get_from_cache(f).v = LastPut(f).data
               ELSE get_from_cache(f).v = None

\* C25: no read removes or changes a cache entry, be it expired or
\* corrupt: an entry, once written, stays until a later write of the same
\* fingerprint replaces it (the client has no operation that clears the
\* cache).
C25_ReadsRemoveNothing ==
    [][/\ (pc = "idle" /\ pc' # "idle") => cache' = cache
       /\ \A f \in Fingerprints :
             /\ cache[f].exists => cache'[f].exists
             /\ cache'[f] # cache[f]
                   => /\ pc = "loop" /\ pc' = "done" /\ last_status' \in {200, 201}
                      /\ call.cache_key = f
                      /\ Len(puts'[f]) = Len(puts[f]) + 1]_vars

\* a call has read an expired entry, which is still there
C25_Witness ==
    /\ pc = "loop" /\ call.method = "GET" /\ call.use_cache /\ use_cache
    /\ http_calls = 0
    /\ cache[call.cache_key].exists
    /\ now - cache[call.cache_key].mtime >= cache_ttl
    /\ cache[call.cache_key].text = json_dump(stored[call.cache_key])

\* C26: loading issues with a limit N (load_data with limit_issues = N, as
\* build_knowledge_base and add_more_content call it; fetch_issues of
\* main.py with limit = N) leaves at most N issue records.
C26_AtMostLimitIssues ==
    (page_op \in {"load_data", "main"} /\ page_args.limit # NoBudget)
        => Len(page_out.out) <= page_args.limit

\* C27: query raises ValueError when the conversation is not ready,
\* search_sources and add_more_content raise ValueError when the vector
\* base is not ready, and all three raise as long as no build_knowledge_base
\* has succeeded since the construction of the tool or its last reset.
C27_NotReadyRaises ==
    [][LET op == tool_out'.op
           raises == tool_out'.ret = "ValueError"
       IN  /\ (op = "query" /\ ~is_conversation_ready) => raises
           /\ (op \in {"search_sources", "add_more_content"}
                 /\ ~is_vectordb_ready) => raises
           /\ (op \in {"query", "search_sources", "add_more_content"}
                 /\ ~built) => raises]_vars

\* C30: when data loading, chunking (with at least one document) and the
\* creation of the vector base all succeed, and the chain can be built,
\* build_knowledge_base returns True and leaves is_vectordb_ready and
\* is_conversation_ready both True (so a following query does not raise
\* the not-ready ValueError).
C30_SuccessfulBuildIsReady ==
    (/\ tool_out.op = "build_knowledge_base"
     /\ tool_out.env.load_ok /\ tool_out.env.docs >= 1
     /\ tool_out.env.create = "True" /\ tool_out.env.conv_ok)
        => /\ tool_out.ret = "True"
           /\ is_vectordb_ready
           /\ is_conversation_ready

\* Pages 1..k-1 of the server are full and page k is a short list.
FullThenShort(k) ==
    /\ k \in 1..Len(page_server)
    /\ \A i \in 1..k :
          /\ PageOf(page_server, i) # None
          /\ IF i < k
             THEN Len(PageOf(page_server, i).items) = page_args.per_page
             ELSE Len(PageOf(page_server, i).items) < page_args.per_page

\* C29 as stated: given full pages followed by one short page, the fetch
\* returns the concatenation of all these pages in order, and the page
\* following the short page is the last one it requests.
C29_StopsOnePageAfterShort ==
    \A k \in 1..MaxPages :
        (page_op \in {"issues", "pulls"} /\ FullThenShort(k))
            => /\ page_out.out = AccumulatedFrom(k)
               /\ Len(page_out.reqs) = k + 1
               /\ page_out.reqs[k + 1].page = k + 1

\* C29 amended: given full pages followed by one short page, the fetch
\* returns the concatenation of all these pages in order (for fetch_issues,
\* of their items without the pull-request marker), and the short page is
\* the last one it requests.
C29_StopsAtShortPage ==
    \A k \in 1..MaxPages :
        (page_op \in {"issues", "pulls"} /\ FullThenShort(k))
            => /\ page_out.out = AccumulatedFrom(k)
               /\ Len(page_out.reqs) = k
               /\ page_out.reqs[k].page = k

\* two full pages of pull requests and a page of one: three requests
C29_Witness ==
    /\ page_op = "pulls" /\ page_args.per_page = 2
    /\ FullThenShort(3)
    /\ Len(page_server[3].items) = 1
    /\ Len(page_out.reqs) = 3
    /\ Len(page_out.out) = 5

\* C28: with fetches running at once on one client, a _get_from_cache that
\* interleaves with _save_to_cache calls for the same fingerprint returns
\* None or a payload that was given whole to a _save_to_cache, never a
\* partly written one.
C28_GetSeesWholePayloadOrNothing ==
    conc_gets = 1 => (conc_got = None \/ conc_got \in conc_handed)

\* C31: whenever build_knowledge_base returns False, is_data_loaded,
\* is_vectordb_ready and is_conversation_ready are what they were before
\* the call.
C31_FailedBuildChangesNoFlag ==
    [][(tool_out'.op = "build_knowledge_base" /\ tool_out'.ret = "False")
          => /\ is_data_loaded' = is_data_loaded
             /\ is_vectordb_ready' = is_vectordb_ready
             /\ is_conversation_ready' = is_conversation_ready]_vars

FilesOfTree(t) == {i \in 1..t.n : item_type(t.kind[i]) = "file"}

\* C33: when every listing succeeds, fetch_code_files(path, max_files = B)
\* of main.py returns exactly min(B, N) files, N being the number of files
\* of the tree under path.
C33_BudgetedWalkUsesWholeBudget ==
    (walk_op = "main" /\ walk_bad = {} /\ walk_args.max_files # NoBudget)
        => Len(walk_out.files)
              = Min(walk_args.max_files, Cardinality(FilesOfTree(walk_tree)))

\* C34: every call of the executor increments exactly one of cache_hits
\* and requests_made, by one: cache_hits only when the call returns a
\* payload served from the cache, requests_made only when the call goes
\* on to the network; the retries of a request increment neither.
C34_ExactlyOneCounterPerCall ==
    [][/\ calls' = calls + 1
          => /\ (cache_hits' - cache_hits) + (requests_made' - requests_made) = 1
             /\ cache_hits' # cache_hits => from_cache'
             /\ requests_made' # requests_made => ~from_cache'
       /\ calls' = calls
          => (cache_hits' = cache_hits /\ requests_made' = requests_made)]_vars

\* C35: after the final failed attempt of a request, the one that uses up
\* max_retries, the executor sleeps no more before it returns the failure.
C35_NoSleepAfterFinalAttempt ==
    [][(/\ http_calls' = http_calls + 1
        /\ pc' = "loop"
        /\ ~LoopContinues(retries', call.max_retries))
          => (sleep_count' = sleep_count /\ now' = now)]_vars

\* C36: on a client created with use_cache = False no call reads or
\* writes a cache entry, whatever use_cache the call passes, and on a
\* client that caches a call made with use_cache = False reads and writes
\* none: the call is not served from the cache, counts no cache hit, and
\* leaves every cache file as it was.
C36_NoCacheUseWhenDisabled ==
    [][/\ (calls' = calls + 1 /\ (~use_cache \/ ~call'.use_cache))
          => (cache_hits' = cache_hits /\ ~from_cache' /\ cache' = cache)
       /\ (http_calls' = http_calls + 1 /\ (~use_cache \/ ~call.use_cache))
          => cache' = cache]_vars

\* a client created without cache, a call that passes use_cache = True (as
\* the downloads of fetch_code_files do), a fresh entry of an earlier run
\* for its fingerprint: the answer came from the network and the entry is
\* still the earlier one
C36_Witness ==
    /\ ~use_cache /\ call.use_cache /\ pc = "done"
    /\ cache[call.cache_key].exists
    /\ FreshEnough(now - cache[call.cache_key].mtime, cache_ttl)
    /\ ~from_cache /\ cache_hits = 0 /\ http_calls = 1
    /\ Truthy(result)
    /\ json_load(cache[call.cache_key].text).v # result

=============================================================================
